---- MODULE Spec2Model ----
(***************************************************************************)
(* A model of icu_features: the feature-name generator features(), the     *)
(* loader load() and the per-row diagnosis-code mapping of icd_codes.py.   *)
(*                                                                         *)
(* Python values are modelled as follows.                                  *)
(*   - a list is a sequence, a str is a string;                            *)
(*   - an optional argument is a record [none |-> BOOLEAN, list |-> Seq];  *)
(*   - a raised exception is a result record whose status is "raise";      *)
(*   - a patient hash in [0, 1) is an integer number of hundredths.        *)
(***************************************************************************)
EXTENDS Integers, Sequences, FiniteSets, TLC

VARIABLES
    variable_reference, \* rows of resources/variables.tsv, in file order
    tables,             \* rows of the features.parquet files of the sources
    call,               \* the call being made and its arguments
    ret,                \* what the call returned or raised
    prev,               \* what the preceding identical call returned
    sta                 \* one patient row of sta.parquet

vars == <<variable_reference, tables, call, ret, prev, sta>>

(***************************************************************************)
(* Bounds of the model.                                                    *)
(***************************************************************************)
MaxRef == 2       \* descriptors in the variable reference
MaxVars == 2      \* entries of the allow-list `variables`
MaxRows == 2      \* rows in the source tables
MaxCodes == 2     \* diagnosis codes per list of a patient row

(***************************************************************************)
(* Generic list helpers (Python list semantics).                           *)
(***************************************************************************)
Range(s) == {s[i] : i \in DOMAIN s}

SeqsUpTo(S, n) == UNION {[1..k -> S] : k \in 0..n}

NoDuplicates(s) == \A i, j \in DOMAIN s : i # j => s[i] # s[j]

\* list.remove(x): drops the first occurrence of x (the code calls it only
\* for an x that is in the list)
\* (variant: every occurrence dropped)
RemoveEvery(s, x) == SelectSeq(s, LAMBDA e : e # x)

Remove(s, x) ==
    IF x \notin Range(s) THEN s
    ELSE LET first == CHOOSE i \in DOMAIN s :
                          s[i] = x /\ \A j \in 1..(i - 1) : s[j] # x
         IN  SubSeq(s, 1, first - 1) \o SubSeq(s, first + 1, Len(s))

Some(list) == [none |-> FALSE, list |-> list]
None == [none |-> TRUE, list |-> <<>>]

(***************************************************************************)
(* constants.py                                                            *)
(***************************************************************************)
HORIZONS == <<8, 24>>
CONTINUOUS_FEATURES ==
    <<"mean", "std", "slope", "fraction_nonnull", "all_missing", "min", "max">>
CATEGORICAL_FEATURES == <<"mode", "num_nonmissing">>
TREATMENT_INDICATOR_FEATURES == <<"num", "any">>
TREATMENT_CONTINUOUS_FEATURES == <<"rate">>

(***************************************************************************)
(* features(): load.py lines 130-245                                       *)
(***************************************************************************)
\* `x if x is not None else DEFAULT`
OrDefault(opt, default) == IF opt.none THEN default ELSE opt.list

\* f"{variable}_{feature}_h{horizon}"
HorizonFeatureName(variable, feature, horizon) ==
    variable \o "_" \o feature \o "_h" \o ToString(horizon)

\* [f"..." for horizon in horizons], for one feature
RECURSIVE PerHorizon(_, _, _)
PerHorizon(variable, feature, horizons) ==
    IF horizons = <<>> THEN <<>>
    ELSE <<HorizonFeatureName(variable, feature, Head(horizons))>>
         \o PerHorizon(variable, feature, Tail(horizons))

\* [f"..." for feature in feature_kinds for horizon in horizons]
\* (variant: horizons outer, features inner)
RECURSIVE HorizonFeaturesHorizonOuter(_, _, _)
HorizonFeaturesHorizonOuter(variable, feature_kinds, horizons) ==
    IF horizons = <<>> THEN <<>>
    ELSE [i \in DOMAIN feature_kinds |->
             HorizonFeatureName(variable, feature_kinds[i], Head(horizons))]
         \o HorizonFeaturesHorizonOuter(variable, feature_kinds, Tail(horizons))

RECURSIVE HorizonFeatures(_, _, _)
HorizonFeatures(variable, feature_kinds, horizons) ==
    IF feature_kinds = <<>> THEN <<>>
    ELSE PerHorizon(variable, Head(feature_kinds), horizons)
         \o HorizonFeatures(variable, Tail(feature_kinds), horizons)

\* the name after `if row["LogTransform"] is True: variable = f"log_{variable}"`
DisplayName(row) ==
    IF row.LogTransform = TRUE THEN "log_" \o row.VariableTag ELSE row.VariableTag

KnownDataTypes == {"continuous", "categorical", "treatment_ind", "treatment_cont"}

\* whether the if/elif chain of one loop iteration ends in the final `else`
\* (variant: the data type checked before the static branch)
RaisesUnknownDataTypeStaticToo(row) == row.DataType \notin KnownDataTypes

RaisesUnknownDataType(row) ==
    row.VariableType # "static" /\ row.DataType \notin KnownDataTypes

\* what one loop iteration adds to `features` (the if/elif chain, lines 198-233)
RowFeatures(row, kinds) ==
    LET variable == DisplayName(row) IN
    IF row.VariableType = "static" THEN <<variable>>
    ELSE IF row.DataType = "continuous" THEN
        <<variable \o "_ffilled", variable \o "_missing", variable \o "_sq_ffilled">>
        \o HorizonFeatures(variable, kinds.continuous_features, kinds.horizons)
    ELSE IF row.DataType = "categorical" THEN
        <<variable>>
        \o HorizonFeatures(variable, kinds.categorical_features, kinds.horizons)
    ELSE IF row.DataType = "treatment_ind" THEN
        <<variable>>
        \o HorizonFeatures(variable, kinds.treatment_indicator_features, kinds.horizons)
    ELSE IF row.DataType = "treatment_cont" THEN
        HorizonFeatures(variable, kinds.treatment_continuous_features, kinds.horizons)
    ELSE <<>>

Raise(error, detail) ==
    [status |-> "raise", error |-> error, detail |-> detail, features |-> <<>>]

Return(features) ==
    [status |-> "return", error |-> "", detail |-> <<>>, features |-> features]

\* lines 237-245: the code after the loop; `variables` is the copy left by the scan
\* (variant: without the leftover check)
AfterScanNoLeftoverCheck(requested, variables, features) ==
    IF requested.none \/ "time_hours" \in Range(variables)
    THEN Return(features \o <<"time_hours">>)
    ELSE Return(features)

AfterScan(requested, variables, features) ==
    LET with_time == requested.none \/ "time_hours" \in Range(variables)
        features2 == IF with_time THEN features \o <<"time_hours">> ELSE features
        variables2 == IF ~requested.none /\ with_time
                      THEN Remove(variables, "time_hours") ELSE variables
    IN  IF ~requested.none /\ Len(variables2) > 0
        THEN Raise("Unknown variables", variables2)
        ELSE Return(features2)

\* whether the loop skips a row: `variables is not None and variable not in variables`
Skips(requested, variables, row) ==
    ~requested.none /\ row.VariableTag \notin Range(variables)

\* lines 189-235: the loop over the reference rows from row i on
RECURSIVE Scan(_, _, _, _, _, _)
Scan(reference, i, requested, variables, features, kinds) ==
    IF i > Len(reference) THEN AfterScan(requested, variables, features)
    ELSE LET row == reference[i] IN
         IF Skips(requested, variables, row)
         THEN Scan(reference, i + 1, requested, variables, features, kinds)
         ELSE IF RaisesUnknownDataType(row)
         THEN Raise("Unknown DataType", <<row.DataType>>)
         ELSE Scan(reference, i + 1, requested,
                   IF requested.none THEN variables
                   ELSE Remove(variables, row.VariableTag),
                   features \o RowFeatures(row, kinds), kinds)

\* lines 169-178: the defaults of the feature kinds and horizons
Kinds(args) ==
    [continuous_features |-> OrDefault(args.continuous_features, CONTINUOUS_FEATURES),
     categorical_features |-> OrDefault(args.categorical_features, CATEGORICAL_FEATURES),
     treatment_indicator_features |->
         OrDefault(args.treatment_indicator_features, TREATMENT_INDICATOR_FEATURES),
     treatment_continuous_features |->
         OrDefault(args.treatment_continuous_features, TREATMENT_CONTINUOUS_FEATURES),
     horizons |-> OrDefault(args.horizons, HORIZONS)]

\* features(variables, ..., horizons), reading the reference file
features(reference, args) ==
    Scan(reference, 1, args.variables, args.variables.list, <<>>, Kinds(args))

(***************************************************************************)
(* load(): load.py lines 18-127                                            *)
(***************************************************************************)
\* the thresholds 0.7 and 0.85 of the split filters, in hundredths
TRAIN_END == 70
VAL_END == 85

\* a stored value is null (pyarrow is_null); NaN is a value, not a null
is_null(v) == v = "null"

\* Series.to_numpy() of a float column gives NaN for a null
to_numpy(v) == IF v = "null" THEN "nan" ELSE v

\* np.isnan
isnan(v) == v = "nan"

ValidSplits == {"train", "val", "test", "train_val"}

\* the split part of `filters` (lines 84-93)
\* (variant: 0.7 counted to train)
SplitFilterClosedAbove(split, h) ==
    IF split.none THEN TRUE
    ELSE IF split.name = "train" THEN h <= TRAIN_END
    ELSE IF split.name = "val" THEN h > TRAIN_END /\ h < VAL_END
    ELSE IF split.name = "test" THEN h >= VAL_END
    ELSE h < VAL_END

SplitFilter(split, h) ==
    IF split.none THEN TRUE
    ELSE IF split.name = "train" THEN h < TRAIN_END
    ELSE IF split.name = "val" THEN h >= TRAIN_END /\ h < VAL_END
    ELSE IF split.name = "test" THEN h >= VAL_END
    ELSE h < VAL_END

\* `filters`, lines 82-93, applied to one stored row
\* (variant: without the not-null part)
filtersSplitOnly(outcome, split, row) == SplitFilter(split, row.patient_id_hash)

filters(outcome, split, row) ==
    ~is_null(row[outcome]) /\ SplitFilter(split, row.patient_id_hash)

\* the value a stored row holds in a column: every feature column of the row
\* holds the row's feature value
StoredColumns == {"dataset", "stay_id_hash", "time_hours", "patient_id_hash"}

Cell(row, outcome, column) ==
    IF column \in StoredColumns \cup {outcome} THEN row[column] ELSE row.value

\* lines 109-113
ColumnsToLoad(columns, outcome, other_columns) ==
    LET base == columns \o <<outcome, "dataset", "stay_id_hash">>
        timed == IF "time_hours" \in Range(columns) THEN base
                 ELSE base \o <<"time_hours">>
    IN  timed \o SelectSeq(other_columns, LAMBDA c : c \notin Range(timed))

\* a polars DataFrame: its columns in order and one vector per column
Frame(columns, outcome, rows) ==
    [columns |-> columns,
     data |-> [c \in Range(columns) |->
                  [i \in DOMAIN rows |-> Cell(rows[i], outcome, c)]]]

\* len(df): a frame without columns has no rows
Height(df) == IF df.columns = <<>> THEN 0 ELSE Len(df.data[df.columns[1]])

\* df.select(columns)
\* (variant: the frame as loaded)
selectEverything(df, columns) == df

select(df, columns) ==
    [columns |-> columns, data |-> [c \in Range(columns) |-> df.data[c]]]

\* the order of the dataset names as strings
DatasetOrder == <<"eicu", "mimic">>
DatasetRank(d) == CHOOSE i \in DOMAIN DatasetOrder : DatasetOrder[i] = d

\* the comparison of .sort(["dataset", "stay_id_hash", "time_hours"])
\* (variant: time_hours left out of the sort)
SortsBeforeNoTime(a, b) ==
    \/ DatasetRank(a.dataset) < DatasetRank(b.dataset)
    \/ a.dataset = b.dataset /\ a.stay_id_hash < b.stay_id_hash

SortsBefore(a, b) ==
    \/ DatasetRank(a.dataset) < DatasetRank(b.dataset)
    \/ a.dataset = b.dataset /\ a.stay_id_hash < b.stay_id_hash
    \/ a.dataset = b.dataset /\ a.stay_id_hash = b.stay_id_hash
       /\ a.time_hours < b.time_hours

\* one row put into a sorted list, after the rows that do not sort after it
RECURSIVE Insert(_, _)
Insert(sorted, row) ==
    IF sorted = <<>> THEN <<row>>
    ELSE IF SortsBefore(row, Head(sorted)) THEN <<row>> \o sorted
    ELSE <<Head(sorted)>> \o Insert(Tail(sorted), row)

\* .sort(...): rows in the order read, sorted (rows that compare equal keep
\* the order they were read in)
RECURSIVE sort(_)
sort(rows) ==
    IF rows = <<>> THEN <<>>
    ELSE Insert(sort(SubSeq(rows, 1, Len(rows) - 1)), rows[Len(rows)])

\* the orders in which ParquetDataset(...).read can deliver the rows that pass
\* the filter
ReadOrders(tbl, outcome, split) ==
    LET pass == {r \in tbl : filters(outcome, split, r)}
    IN  {o \in [1..Cardinality(pass) -> pass] : Range(o) = pass}

LoadRaise(error, detail) ==
    [status |-> "raise", error |-> error, detail |-> detail]

\* load(...) with the rows delivered in `order`.  A column named twice in
\* columns_to_load makes the read fail (a frame holds a name once); nothing
\* in load() catches it.
load(reference, args, order) ==
    IF ~args.split.none /\ args.split.name \notin ValidSplits
    THEN LoadRaise("Invalid split", <<args.split.name>>)
    ELSE
    LET got == features(reference, args)
        columns == got.features
        other_columns == OrDefault(args.other_columns, <<>>)
        columns_to_load == ColumnsToLoad(columns, args.outcome, other_columns)
        df == Frame(columns_to_load, args.outcome, sort(order))
        y == [i \in 1..Height(df) |-> to_numpy(df.data[args.outcome][i])]
    IN  IF got.status = "raise" THEN LoadRaise(got.error, got.detail)
        ELSE IF ~NoDuplicates(columns_to_load)
        THEN LoadRaise("Duplicate columns", columns_to_load)
        ELSE IF \E i \in DOMAIN y : isnan(y[i])
        THEN LoadRaise("AssertionError", <<>>)
        ELSE [status |-> "return",
              values |-> <<select(df, columns), y>>
                  \o [k \in DOMAIN other_columns |-> df.data[other_columns[k]]]]

(***************************************************************************)
(* icd_codes.py: the mapping of one patient row (lines 22-31 and 69-94).   *)
(* A diagnosis code is a sequence of characters; the mapper is the lookup  *)
(* table of the icdmappings library, here a small table with the same      *)
(* shape: a miss is NoCode or NoBlock.                                     *)
(***************************************************************************)
NoCode == <<"None">>
NoBlock == "None"

Icd10Codes == {<<"I", "2", "1">>, <<"J", "1", "8">>, <<"A", "0", "0">>,
               <<"Z", "Z", "Z">>}
Icd9Codes == {<<"4", "1", "0", ".", "0">>, <<"4", "8", "6">>, <<"0", "0", "1">>,
              <<"9", "9", "9">>}

\* mapper.map(x, source='icd10', target='block')
MapIcd10ToBlock(x) ==
    IF x = <<"I", "2", "1">> THEN "I20-I25"
    ELSE IF x = <<"J", "1", "8">> THEN "J09-J18"
    ELSE IF x = <<"A", "0", "0">> THEN "A00-A09"
    ELSE NoBlock

\* mapper.map(x, source='icd9', target='icd10'): the table holds ICD-9 codes
\* without the dot
MapIcd9ToIcd10(x) ==
    IF x = <<"4", "1", "0", "0">> THEN <<"I", "2", "1">>
    ELSE IF x = <<"4", "8", "6">> THEN <<"J", "1", "8">>
    ELSE IF x = <<"0", "0", "1">> THEN <<"A", "0", "0">>
    ELSE NoCode

\* `v or ""`
OrEmpty(v) == IF v = NoBlock THEN "" ELSE v

\* x.replace(".", "")
RemoveDots(x) == SelectSeq(x, LAMBDA ch : ch # ".")

\* icd10_blocks(x), lines 22-23
icd10_blocks(x) == OrEmpty(MapIcd10ToBlock(x))

\* icd9_blocks(x), lines 25-31
icd9_blocks(x) ==
    LET first == MapIcd9ToIcd10(x)
        icd10code == IF first = NoCode THEN MapIcd9ToIcd10(RemoveDots(x)) ELSE first
    IN  IF icd10code = NoCode THEN "" ELSE OrEmpty(MapIcd10ToBlock(icd10code))

\* the order of the block names as strings
BlockOrder == <<"A00-A09", "I20-I25", "J09-J18">>
BlockRank(b) == CHOOSE i \in DOMAIN BlockOrder : BlockOrder[i] = b

\* sorted(z for z in set(...) if z != "")
RECURSIVE sorted(_)
sorted(blocks) ==
    IF blocks = {} THEN <<>>
    ELSE LET least == CHOOSE b \in blocks :
                          \A c \in blocks : BlockRank(b) <= BlockRank(c)
         IN  <<least>> \o sorted(blocks \ {least})

\* lines 74-77: sorted(z for z in set(icd10_blocks(x) for x in s) if z != "")
Icd10BlockList(codes) ==
    sorted({icd10_blocks(codes[i]) : i \in DOMAIN codes} \ {""})

\* lines 78-81: sorted(z for z in set(icd9_blocks(x) for x in s) if z != "")
Icd9BlockList(codes) ==
    sorted({icd9_blocks(codes[i]) : i \in DOMAIN codes} \ {""})

\* pl.concat_list("icd10_blocks", "icd9_blocks"), line 92
concat_list(a, b) == a \o b

\* lines 69-94 on one row of sta
MapRow(row) ==
    LET icd10_diagnosis == OrDefault(row.icd10_diagnosis, <<>>)
        icd9_diagnosis == OrDefault(row.icd9_diagnosis, <<>>)
        from10 == Icd10BlockList(icd10_diagnosis)
        from9 == Icd9BlockList(icd9_diagnosis)
    IN  [icd10_diagnosis |-> Some(icd10_diagnosis),
         icd9_diagnosis |-> Some(icd9_diagnosis),
         icd10_blocks |-> concat_list(from10, from9),
         icd9_blocks |-> from9,
         mapped |-> TRUE]

(***************************************************************************)
(* The inputs: reference files, calls, tables and patient rows.            *)
(***************************************************************************)
ReferenceTags == {"age", "hr", "time_hours"}
RequestTags == ReferenceTags \cup {"zz"}

\* a descriptor: LogTransform is set on continuous variables only
Descriptors ==
    {d \in [VariableTag : ReferenceTags,
            VariableType : {"static", "dynamic"},
            DataType : KnownDataTypes \cup {"text"},
            LogTransform : BOOLEAN] :
        /\ d.LogTransform => d.DataType = "continuous"
        /\ d.VariableType = "static" => d.DataType \in {"continuous", "text"}}

\* reference files: tags are unique
References ==
    {r \in SeqsUpTo(Descriptors, MaxRef) :
        \A i, j \in DOMAIN r : i # j => r[i].VariableTag # r[j].VariableTag}

AllowLists == {None} \cup {Some(l) : l \in SeqsUpTo(RequestTags, MaxVars)}

DefaultKinds ==
    [continuous_features |-> None, categorical_features |-> None,
     treatment_indicator_features |-> None,
     treatment_continuous_features |-> None, horizons |-> None]

GivenKinds ==
    [continuous_features |-> Some(<<"mean", "std">>),
     categorical_features |-> Some(<<"mode">>),
     treatment_indicator_features |-> Some(<<>>),
     treatment_continuous_features |-> Some(<<"rate", "dose">>),
     horizons |-> Some(<<8, 24>>)]

KindChoices == {DefaultKinds, GivenKinds}

FeatureArgs(variables, kinds) ==
    [variables |-> variables,
     continuous_features |-> kinds.continuous_features,
     categorical_features |-> kinds.categorical_features,
     treatment_indicator_features |-> kinds.treatment_indicator_features,
     treatment_continuous_features |-> kinds.treatment_continuous_features,
     horizons |-> kinds.horizons]

Outcome == "mortality_at_24h"

LoadArgs(split, variables, kinds, other_columns) ==
    [outcome |-> Outcome, split |-> split, variables |-> variables,
     continuous_features |-> kinds.continuous_features,
     categorical_features |-> kinds.categorical_features,
     treatment_indicator_features |-> kinds.treatment_indicator_features,
     treatment_continuous_features |-> kinds.treatment_continuous_features,
     horizons |-> kinds.horizons, other_columns |-> other_columns]

NoSplit == [none |-> TRUE, name |-> ""]
Split(name) == [none |-> FALSE, name |-> name]

\* the reference files the load calls read
ExampleReference ==
    <<[VariableTag |-> "age", VariableType |-> "static", DataType |-> "continuous",
       LogTransform |-> FALSE],
      [VariableTag |-> "hr", VariableType |-> "dynamic", DataType |-> "continuous",
       LogTransform |-> FALSE]>>

TreatmentReference ==
    <<[VariableTag |-> "hr", VariableType |-> "dynamic",
       DataType |-> "treatment_cont", LogTransform |-> FALSE]>>

LoadReferences == {ExampleReference, TreatmentReference}

\* every split with all variables, and no split with a choice of variables,
\* feature kinds and other columns
LoadCalls ==
    {LoadArgs(s, None, DefaultKinds, None) :
        s \in {Split(n) : n \in ValidSplits \cup {"all"}}}
    \cup
    {LoadArgs(NoSplit, v, k, o) :
        v \in {None, Some(<<>>), Some(<<"hr">>), Some(<<"age", "zz">>)},
        k \in {GivenKinds},
        o \in {None, Some(<<"stay_id_hash", "patient_id_hash">>),
               Some(<<"time_hours", "age">>),
               Some(<<"patient_id_hash", "patient_id_hash">>)}}
    \cup
    {LoadArgs(Split("all"), Some(<<"zz">>), DefaultKinds, None)}

\* rows of the source tables: (dataset, stay_id_hash, time_hours) is the key
Keys == {"eicu", "mimic"} \X {1, 2} \X {0, 1}
LoadHashes == {30, 90}
OutcomeValues == {"1.0", "nan", "null"}

StoredRow(key, h, y) ==
    [dataset |-> key[1], stay_id_hash |-> key[2], time_hours |-> key[3],
     patient_id_hash |-> h, mortality_at_24h |-> y,
     value |-> 100 * DatasetRank(key[1]) + 10 * key[2] + key[3]]

Tables ==
    UNION {
        {{StoredRow(k, f[k][1], f[k][2]) : k \in ks} :
            f \in [ks -> LoadHashes \X OutcomeValues]} :
        ks \in {k \in SUBSET Keys : Cardinality(k) <= MaxRows}}

\* the rows the split filters are tried on: every hash, outcome present
HashValues == 0 .. 99
FilterRows == {StoredRow(<<"eicu", 1, 0>>, h, "1.0") : h \in HashValues}

\* patient rows of sta.parquet before the mapping
CodeLists(codes) == {None} \cup {Some(l) : l \in SeqsUpTo(codes, MaxCodes)}

StaRows ==
    {[icd10_diagnosis |-> a, icd9_diagnosis |-> b, icd10_blocks |-> <<>>,
      icd9_blocks |-> <<>>, mapped |-> FALSE] :
        a \in CodeLists(Icd10Codes), b \in CodeLists(Icd9Codes)}

NoRet == [status |-> "none"]
NoSta == [mapped |-> FALSE]

(***************************************************************************)
(* The state machine: one call of features(), two identical calls of       *)
(* load(), the split filters tried on one row, or the mapping of one row.  *)
(***************************************************************************)
InitFeatures ==
    /\ variable_reference \in References
    /\ \E v \in AllowLists, k \in KindChoices :
          call = [op |-> "features", args |-> FeatureArgs(v, k)]
    /\ tables = {}
    /\ ret = NoRet /\ prev = NoRet /\ sta = NoSta

InitLoad ==
    /\ variable_reference \in LoadReferences
    /\ \E a \in LoadCalls : call = [op |-> "load", args |-> a]
    /\ tables \in Tables
    /\ ret = NoRet /\ prev = NoRet /\ sta = NoSta

InitFilter ==
    /\ variable_reference = <<>>
    /\ call = [op |-> "filter", tried |-> {}]
    /\ \E r \in FilterRows : tables = {r}
    /\ ret = [status |-> "filter", admitted |-> {}]
    /\ prev = NoRet /\ sta = NoSta

InitIcd ==
    /\ variable_reference = <<>>
    /\ call = [op |-> "icd"]
    /\ tables = {}
    /\ ret = NoRet /\ prev = NoRet
    /\ sta \in StaRows

Init == InitFeatures \/ InitLoad \/ InitFilter \/ InitIcd

\* features(...) is called
CallFeatures ==
    /\ call.op = "features" /\ ret.status = "none"
    /\ ret' = features(variable_reference, call.args)
    /\ UNCHANGED <<variable_reference, tables, call, prev, sta>>

\* load(...) is called; the engine delivers the rows in some order
Load ==
    /\ call.op = "load" /\ ret.status = "none"
    /\ \E order \in ReadOrders(tables, call.args.outcome, call.args.split) :
          ret' = load(variable_reference, call.args, order)
    /\ UNCHANGED <<variable_reference, tables, call, prev, sta>>

\* load(...) is called again with the same arguments
LoadAgain ==
    /\ call.op = "load" /\ ret.status # "none" /\ prev.status = "none"
    /\ prev' = ret
    /\ \E order \in ReadOrders(tables, call.args.outcome, call.args.split) :
          ret' = load(variable_reference, call.args, order)
    /\ UNCHANGED <<variable_reference, tables, call, sta>>

\* the filter of one split is applied to the stored row
ApplyFilter ==
    /\ call.op = "filter"
    /\ \E s \in ValidSplits \ call.tried :
          /\ call' = [call EXCEPT !.tried = @ \cup {s}]
          /\ ret' = [ret EXCEPT !.admitted =
                        @ \cup IF \E r \in tables : filters(Outcome, Split(s), r)
                               THEN {s} ELSE {}]
    /\ UNCHANGED <<variable_reference, tables, prev, sta>>

\* the mapping script processes the row and writes it back
MapDiagnosisCodes ==
    /\ call.op = "icd" /\ ~sta.mapped
    /\ sta' = MapRow(sta)
    /\ UNCHANGED <<variable_reference, tables, call, ret, prev>>

Next == CallFeatures \/ Load \/ LoadAgain \/ ApplyFilter \/ MapDiagnosisCodes

Spec == Init /\ [][Next]_vars

(***************************************************************************)
(* Vocabulary of the properties.                                           *)
(***************************************************************************)
Done == ret.status \in {"return", "raise"}
Returned == ret.status = "return"
Raised(error) == ret.status = "raise" /\ ret.error = error

FeaturesCall == call.op = "features" /\ Done
LoadCall == call.op = "load" /\ Done

Requested == call.args.variables
RefRows == Range(variable_reference)
RefTags == {row.VariableTag : row \in RefRows}

Count(list, x) == Cardinality({i \in DOMAIN list : list[i] = x})

\* the allow-list lets the descriptor in
IncludedRow(row) == Requested.none \/ row.VariableTag \in Range(Requested.list)

UnknownType(row) == row.DataType \notin KnownDataTypes

\* an included descriptor whose data type reaches the final `else`
UnknownTypeReached ==
    \E row \in RefRows :
        IncludedRow(row) /\ row.VariableType # "static" /\ UnknownType(row)

\* requested tags that are neither in the reference nor "time_hours"
UnresolvedTags == Range(Requested.list) \ (RefTags \cup {"time_hours"})

\* name_{f}_h{h}, f outer and h inner, written by position
NamesByPosition(name, feature_kinds, horizons) ==
    [k \in 1..(Len(feature_kinds) * Len(horizons)) |->
        name \o "_" \o feature_kinds[((k - 1) \div Len(horizons)) + 1]
             \o "_h" \o ToString(horizons[((k - 1) % Len(horizons)) + 1])]

\* the name of a descriptor: its tag, prefixed when log_transform is true
ListedName(row) ==
    IF row.LogTransform THEN "log_" \o row.VariableTag ELSE row.VariableTag

\* the names the specification lists for one descriptor
ListedNames(row, kinds) ==
    LET name == ListedName(row)
    IN  IF row.VariableType = "static" THEN <<name>>
        ELSE CASE row.DataType = "continuous" ->
                    <<name \o "_ffilled", name \o "_missing", name \o "_sq_ffilled">>
                    \o NamesByPosition(name, kinds.continuous_features, kinds.horizons)
               [] row.DataType = "categorical" ->
                    <<name>>
                    \o NamesByPosition(name, kinds.categorical_features, kinds.horizons)
               [] row.DataType = "treatment_ind" ->
                    <<name>>
                    \o NamesByPosition(name, kinds.treatment_indicator_features,
                                       kinds.horizons)
               [] row.DataType = "treatment_cont" ->
                    NamesByPosition(name, kinds.treatment_continuous_features,
                                    kinds.horizons)
               [] OTHER -> <<>>

\* the listed names of the included descriptors, in reference order
RECURSIVE ListedUpTo(_)
ListedUpTo(n) ==
    IF n = 0 THEN <<>>
    ELSE ListedUpTo(n - 1)
         \o IF IncludedRow(variable_reference[n])
            THEN ListedNames(variable_reference[n], Kinds(call.args))
            ELSE <<>>

ListedScan == ListedUpTo(Len(variable_reference))

(***************************************************************************)
(* C1                                                                      *)
(***************************************************************************)
FilterHash == (CHOOSE r \in tables : TRUE).patient_id_hash
AllSplitsTried == call.op = "filter" /\ call.tried = ValidSplits

\* C1: once the four split filters have been applied to a row with hash h in
\* [0, 1), exactly one of train, val, test admitted it, train_val admitted it
\* exactly when train or val did, h = 0.7 went to val and not to train, and
\* h = 0.85 went to test and not to val or train_val.
C1_SplitsPartition ==
    AllSplitsTried =>
        /\ Cardinality(ret.admitted \cap {"train", "val", "test"}) = 1
        /\ "train_val" \in ret.admitted
               <=> ("train" \in ret.admitted \/ "val" \in ret.admitted)
        /\ FilterHash = 70 => ret.admitted = {"val", "train_val"}
        /\ FilterHash = 85 => ret.admitted = {"test"}

C1_Witness == AllSplitsTried /\ FilterHash = 70 /\ "val" \in ret.admitted

(***************************************************************************)
(* C2                                                                      *)
(***************************************************************************)
\* C2 as stated: a call of features() that returns, returns the listed names
\* of the included descriptors in reference order, followed by "time_hours"
\* exactly when no allow-list was given or the allow-list contains
\* "time_hours".
C2_ListedOrder ==
    (FeaturesCall /\ Returned) =>
        ret.features =
            ListedScan
            \o IF Requested.none \/ "time_hours" \in Range(Requested.list)
               THEN <<"time_hours">> ELSE <<>>

\* C2, amended: a call of features() that returns, returns the listed names
\* of the included descriptors in reference order, followed by "time_hours"
\* exactly when no allow-list was given or the allow-list still contains
\* "time_hours" once the scan has consumed one occurrence of every tag of the
\* reference.
C2_ListedOrderAfterConsumption ==
    (FeaturesCall /\ Returned) =>
        ret.features =
            ListedScan
            \o IF \/ Requested.none
                  \/ Count(Requested.list, "time_hours")
                         > Cardinality(RefTags \cap {"time_hours"})
               THEN <<"time_hours">> ELSE <<>>

\* the example of the specification
C2_Witness ==
    /\ FeaturesCall
    /\ variable_reference = ExampleReference
    /\ call.args = FeatureArgs(None, GivenKinds)
    /\ ret.features = <<"age", "hr_ffilled", "hr_missing", "hr_sq_ffilled",
                        "hr_mean_h8", "hr_mean_h24", "hr_std_h8", "hr_std_h24",
                        "time_hours">>

(***************************************************************************)
(* C3                                                                      *)
(***************************************************************************)
UnresolvedRequest ==
    /\ call.op \in {"features", "load"} /\ Done
    /\ ~Requested.none /\ UnresolvedTags # {}

\* C3 as stated: a call of features() or load() whose allow-list holds an
\* unresolved tag fails with "Unknown variables", naming every such tag.
C3_UnknownVariables ==
    UnresolvedRequest =>
        Raised("Unknown variables") /\ UnresolvedTags \subseteq Range(ret.detail)

\* C3, amended: a call of features() or load() whose allow-list holds an
\* unresolved tag fails and returns nothing; the error is "Unknown variables",
\* naming every such tag, unless an earlier check has already failed the
\* call: the split check of load(), or the data type check of the scan on an
\* included descriptor.
C3_UnknownVariablesUnlessEarlier ==
    UnresolvedRequest =>
        /\ ret.status = "raise"
        /\ \/ Raised("Unknown variables")
              /\ UnresolvedTags \subseteq Range(ret.detail)
              /\ ~UnknownTypeReached
           \/ Raised("Unknown DataType") /\ UnknownTypeReached
           \/ Raised("Invalid split") /\ call.op = "load"
              /\ call.args.split.name \notin ValidSplits

C3_Witness ==
    UnresolvedRequest /\ Raised("Unknown variables") /\ "zz" \in Range(ret.detail)
    /\ Len(variable_reference) > 0

(***************************************************************************)
(* C4                                                                      *)
(***************************************************************************)
\* C4 as stated: if any descriptor of the reference has an unknown data type,
\* features() fails with "Unknown DataType".
C4_UnknownTypeAlwaysFails ==
    (FeaturesCall /\ \E row \in RefRows : UnknownType(row)) =>
        Raised("Unknown DataType")

\* C4, amended: features() fails with "Unknown DataType" exactly when a
\* descriptor that the allow-list includes and that is not static has an
\* unknown data type; a static descriptor with an unknown data type has its
\* name emitted, and a descriptor the allow-list leaves out raises nothing.
C4_UnknownTypeFailsWhenReached ==
    FeaturesCall =>
        /\ Raised("Unknown DataType") <=> UnknownTypeReached
        /\ Returned =>
              \A row \in RefRows :
                  (IncludedRow(row) /\ row.VariableType = "static")
                      => ListedName(row) \in Range(ret.features)

C4_Witness ==
    /\ FeaturesCall /\ Returned
    /\ \E row \in RefRows :
          /\ UnknownType(row) /\ IncludedRow(row) /\ row.VariableType = "static"
          /\ ListedName(row) \in Range(ret.features)
    /\ \E row \in RefRows : UnknownType(row) /\ ~IncludedRow(row)

(***************************************************************************)
(* C9                                                                      *)
(***************************************************************************)
\* C9 as stated: with an allow-list, features() raises "Unknown variables"
\* exactly when the set of requested tags minus the set of reference tags is
\* not empty.
C9_SetDifference ==
    (FeaturesCall /\ ~Requested.none) =>
        (Raised("Unknown variables") <=> Range(Requested.list) \ RefTags # {})

\* how many occurrences of a tag the scan and the "time_hours" step consume
Consumable(tag) ==
    Cardinality(RefTags \cap {tag}) + (IF tag = "time_hours" THEN 1 ELSE 0)

\* C9, amended: with an allow-list, features() raises "Unknown variables"
\* exactly when the scan did not fail on a data type and some tag occurs in
\* the allow-list more often than it can be consumed (once if it is a tag of
\* the reference, once more if it is "time_hours"); the error names what is
\* left over.
C9_MultisetDifference ==
    (FeaturesCall /\ ~Requested.none) =>
        /\ Raised("Unknown variables")
              <=> /\ ~UnknownTypeReached
                  /\ \E tag \in Range(Requested.list) :
                        Count(Requested.list, tag) > Consumable(tag)
        /\ Raised("Unknown variables") =>
              \A tag \in RequestTags :
                  Count(ret.detail, tag) =
                      IF Count(Requested.list, tag) > Consumable(tag)
                      THEN Count(Requested.list, tag) - Consumable(tag) ELSE 0

\* a repeated tag of the reference is left over
C9_Witness ==
    /\ FeaturesCall /\ Raised("Unknown variables")
    /\ Range(Requested.list) \subseteq RefTags
    /\ "time_hours" \notin Range(Requested.list)

(***************************************************************************)
(* C5, C6, C7, C8                                                          *)
(***************************************************************************)
\* the stored rows that satisfy the predicate of the call
Passing ==
    {r \in tables :
        /\ r[call.args.outcome] # "null"
        /\ \/ call.args.split.none
           \/ call.args.split.name = "train" /\ r.patient_id_hash < 70
           \/ call.args.split.name = "val" /\ r.patient_id_hash >= 70
              /\ r.patient_id_hash < 85
           \/ call.args.split.name = "test" /\ r.patient_id_hash >= 85
           \/ call.args.split.name = "train_val" /\ r.patient_id_hash < 85}

OtherColumns == OrDefault(call.args.other_columns, <<>>)

\* C5: the columns of the feature table that load() returns are the list that
\* features() returns for the same arguments, in the same order, and the
\* table holds exactly those columns.
C5_ColumnsAreFeatures ==
    (LoadCall /\ Returned) =>
        /\ ret.values[1].columns = features(variable_reference, call.args).features
        /\ DOMAIN ret.values[1].data = Range(ret.values[1].columns)

C5_Witness ==
    /\ LoadCall /\ Returned
    /\ call.args.variables = Some(<<"hr">>)
    /\ call.args.other_columns = Some(<<"time_hours", "age">>)
    /\ Len(ret.values[1].columns) > 0
    /\ Passing # {}

C7_ValuesAligned ==
    (LoadCall /\ Returned) =>
        /\ Len(ret.values) = 2 + Len(OtherColumns)
        /\ Height(ret.values[1]) = Cardinality(Passing)
        /\ \A k \in 2..Len(ret.values) : Len(ret.values[k]) = Cardinality(Passing)
        /\ \E o \in [1..Cardinality(Passing) -> Passing] :
              /\ \A c \in DOMAIN ret.values[1].data :
                    \A i \in DOMAIN o :
                        ret.values[1].data[c][i] = Cell(o[i], call.args.outcome, c)
              /\ \A i \in DOMAIN o : ret.values[2][i] = o[i][call.args.outcome]
              /\ \A k \in DOMAIN OtherColumns :
                    \A i \in DOMAIN o :
                        ret.values[2 + k][i]
                            = Cell(o[i], call.args.outcome, OtherColumns[k])

\* C8: two calls of load() with the same arguments on the same tables return
\* the same values whatever order the rows were read in, and the rows of the
\* feature table are in ascending (dataset, stay_id_hash, time_hours) order
\* (the feature value of a stored row ascends with its key).
C8_Deterministic ==
    (LoadCall /\ prev.status # "none") =>
        /\ ret = prev
        /\ Returned =>
              \A c \in DOMAIN ret.values[1].data \ (StoredColumns \cup {Outcome}) :
                  \A i, j \in DOMAIN ret.values[1].data[c] :
                      i < j => ret.values[1].data[c][i] < ret.values[1].data[c][j]

C8_Witness ==
    /\ LoadCall /\ prev.status = "return" /\ Returned
    /\ Height(ret.values[1]) = 2
    /\ \E r1, r2 \in Passing :
          /\ r1.dataset = r2.dataset /\ r1.stay_id_hash = r2.stay_id_hash
          /\ r1.time_hours # r2.time_hours

(***************************************************************************)
(* C10                                                                     *)
(***************************************************************************)
\* the blocks the two code lists of the row map to
RowBlocks ==
    ({icd10_blocks(c) : c \in Range(sta.icd10_diagnosis.list)}
        \cup {icd9_blocks(c) : c \in Range(sta.icd9_diagnosis.list)}) \ {""}

\* C10: after the mapping the icd10_blocks list of a row holds each distinct
\* non-empty block of its ICD-10 and ICD-9 codes exactly once, in ascending
\* order.
C10_BlocksSortedDistinct ==
    sta.mapped =>
        /\ Range(sta.icd10_blocks) = RowBlocks
        /\ \A i, j \in DOMAIN sta.icd10_blocks :
              i < j => BlockRank(sta.icd10_blocks[i]) < BlockRank(sta.icd10_blocks[j])

====
